---- MODULE Spec2Model ----
(***************************************************************************)
(* Model of the audio synthesis assembly pipeline of Finance_Podcast:      *)
(* the text normalizer (cleanScript), the segmenting loop and the          *)
(* per-segment synthesis loop of synthesizePodcast                         *)
(* (src/services/geminiService.ts, first definitions in the file).         *)
(*                                                                         *)
(* Representation.                                                         *)
(*   - A text is a sequence of one-character strings.  FWC stands for the  *)
(*     full-width colon U+FF1A.                                            *)
(*   - In the segmenter a dialogue line is a record [who, len]: a string   *)
(*     of len characters without line break, who telling lines of equal    *)
(*     length apart.  A chunk is the sequence of the lines appended to it, *)
(*     each rendered as the line followed by one "\n".                     *)
(*   - A sample is the integer k standing for the float k / 32768.         *)
(***************************************************************************)
EXTENDS Integers, Sequences, FiniteSets, TLC

VARIABLES
    \* ---- cleanScript applied to a text (SpecClean)
    text,          \* the argument of cleanScript
    cleaned,       \* cleanScript(text)
    twice,         \* cleanScript(cleanScript(text))
    cpc,           \* "init" | "cleaned" | "twice"
    \* ---- synthesizePodcast (Spec, SpecSeg)
    lines,         \* cleaned.split('\n')
    lineIdx,       \* number of lines the for-of loop has consumed
    currentChunk,  \* the chunk being accumulated
    chunks,        \* the chunks pushed so far
    pc,            \* position in synthesizePodcast
    i,             \* loop index of the synthesis loop (0-based, as in the code)
    buffers,       \* decoded AudioBuffers, in push order
    inFlight,      \* indices of the generateContent calls not yet settled
    calls,         \* indices of the generateContent calls issued, in issue order
    responses,     \* the response each settled call got, in settle order
    warned,        \* indices logged by console.warn
    progress,      \* arguments of the onProgress invocations, in order
    final,         \* the AudioBuffer returned
    error,         \* what reached the caller: "none" or the error thrown
    cancelled,     \* the caller has asked to cancel the generation
    \* ---- the payload decoders and bufferToWav (SpecDecode, SpecWav)
    payload,       \* the bytes atob yields for one response
    decInline,     \* what lines 353-359 of synthesizePodcast make of payload
    decFn,         \* what decodeAudioData makes of payload
    wavIn,         \* the AudioBuffer handed to bufferToWav
    wavOut,        \* the bytes of the Blob bufferToWav returns
    kpc,           \* position of the decode / encode run
    \* ---- the workflow of App.tsx (SpecFlow)
    currentStep,   \* useState currentStep, App.tsx:8
    keyword,       \* useState keyword, App.tsx:9
    content,       \* useState content: the fields present and their values
    executionLogs, \* useState executionLogs, App.tsx:15
    errorOccurred, \* useState errorOccurred, App.tsx:20
    runs           \* the invocations of startWorkflow that passed line 46

vars == <<text, cleaned, twice, cpc, lines, lineIdx, currentChunk, chunks, pc, i,
          buffers, inFlight, calls, responses, warned, progress, final, error,
          cancelled, payload, decInline, decFn, wavIn, wavOut, kpc,
          currentStep, keyword, content, executionLogs, errorOccurred, runs>>

cleanVars == <<text, cleaned, twice, cpc>>
synthVars == <<lines, lineIdx, currentChunk, chunks, pc, i, buffers, inFlight,
               calls, responses, warned, progress, final, error, cancelled>>
codecVars == <<payload, decInline, decFn, wavIn, wavOut, kpc>>
flowVars == <<currentStep, keyword, content, executionLogs, errorOccurred, runs>>

(***************************************************************************)
(* Bounds                                                                  *)
(***************************************************************************)
MaxTextLen == 5
MaxLines == 3
MaxScriptLines == 3
MaxPayloadBytes == 4
MaxFrames == 2
MaxRuns == 2
MaxNotes == 1

(***************************************************************************)
(* Characters                                                              *)
(***************************************************************************)
FWC == "FWC"
NL == "\n"
Alphabet == {"h", ":", FWC, "*", " ", NL}
\* what String.prototype.trim strips
WhiteSpace == {" ", NL, "\t", "\r"}
\* a text argument that is undefined or null
Missing == <<"undefined">>

Texts == UNION {[1..n -> Alphabet] : n \in 0..MaxTextLen} \cup {Missing}

(***************************************************************************)
(* cleanScript, geminiService.ts:7-12                                      *)
(***************************************************************************)
\* !text
IsFalsy(t) == t = Missing \/ t = <<>>

\* (mutant) replace without the g flag: the first match only
ReplaceFirstStars(s) ==
    IF \E k \in 1..(Len(s) - 1) : s[k] = "*" /\ s[k + 1] = "*"
    THEN LET k == CHOOSE k \in 1..(Len(s) - 1) :
                      /\ s[k] = "*" /\ s[k + 1] = "*"
                      /\ \A j \in 1..(k - 1) : ~(s[j] = "*" /\ s[j + 1] = "*")
         IN SubSeq(s, 1, k - 1) \o SubSeq(s, k + 2, Len(s))
    ELSE s

\* text.replace(/\*\*/g, ''): leftmost non-overlapping matches
RECURSIVE ReplaceStars(_)
ReplaceStars(s) ==
    IF Len(s) < 2 THEN s
    ELSE IF s[1] = "*" /\ s[2] = "*" THEN ReplaceStars(SubSeq(s, 3, Len(s)))
    ELSE <<s[1]>> \o ReplaceStars(Tail(s))

\* .split('\n'): ''.split('\n') is ['']
RECURSIVE Split(_)
Split(s) ==
    IF \A k \in 1..Len(s) : s[k] # NL THEN <<s>>
    ELSE LET k == CHOOSE k \in 1..Len(s) :
                      s[k] = NL /\ \A j \in 1..(k - 1) : s[j] # NL
         IN <<SubSeq(s, 1, k - 1)>> \o Split(SubSeq(s, k + 1, Len(s)))

\* line.trim()
RECURSIVE Trim(_)
Trim(s) ==
    IF s = <<>> THEN s
    ELSE IF s[1] \in WhiteSpace THEN Trim(Tail(s))
    ELSE IF s[Len(s)] \in WhiteSpace THEN Trim(SubSeq(s, 1, Len(s) - 1))
    ELSE s

IsColon(c) == c \in {":", FWC}

\* number of leading characters of s that [^：:] accepts
RECURSIVE NonColonPrefix(_)
NonColonPrefix(s) ==
    IF s = <<>> \/ IsColon(s[1]) THEN 0 ELSE 1 + NonColonPrefix(Tail(s))

\* /^[^：:]+[：:]/.test(s)
RegexTest(s) ==
    LET n == NonColonPrefix(s)
    IN n >= 1 /\ n < Len(s)

\* (mutant) the filter tests the line as it is, not its trimmed form
KeepLineNoTrim(line) == RegexTest(line)

\* the filter callback
KeepLine(line) == RegexTest(Trim(line))

\* .join('\n'): [].join is ''
RECURSIVE Join(_)
Join(ls) ==
    IF ls = <<>> THEN <<>>
    ELSE IF Len(ls) = 1 THEN ls[1]
    ELSE ls[1] \o <<NL>> \o Join(Tail(ls))

cleanScript(t) ==
    IF IsFalsy(t) THEN <<>>
    ELSE Join(SelectSeq(Split(ReplaceStars(t)), KeepLine))

(***************************************************************************)
(* SpecClean: cleanScript applied to a text, and to its own result         *)
(* (cleanScript is exported, and synthesizePodcast applies it to whatever  *)
(* script it is handed, an already cleaned one included: line 319).        *)
(***************************************************************************)
\* the state of App after its first render, App.tsx:8-20
FlowStart ==
    /\ currentStep = "IDLE" /\ keyword = "" /\ content = ("keyword" :> "")
    /\ executionLogs = <<>> /\ errorOccurred = FALSE /\ runs = <<>>

\* no decode / encode run
CodecIdle ==
    /\ payload = <<>> /\ decInline = <<>> /\ decFn = <<>> /\ wavIn = <<>>
    /\ wavOut = <<>> /\ kpc = "off"

SynthIdle ==
    /\ lines = <<>> /\ lineIdx = 0 /\ currentChunk = <<>> /\ chunks = <<>>
    /\ pc = "off" /\ i = 0 /\ buffers = <<>> /\ inFlight = {} /\ calls = <<>>
    /\ responses = <<>> /\ warned = <<>> /\ progress = <<>> /\ final = <<>>
    /\ error = "none" /\ cancelled = FALSE

InitClean ==
    /\ text \in Texts
    /\ cleaned = <<>> /\ twice = <<>> /\ cpc = "init"
    /\ SynthIdle
    /\ CodecIdle
    /\ FlowStart

CleanFirst ==
    /\ cpc = "init"
    /\ cleaned' = cleanScript(text)
    /\ cpc' = "cleaned"
    /\ UNCHANGED <<text, twice>>
    /\ UNCHANGED <<synthVars, codecVars, flowVars>>

CleanSecond ==
    /\ cpc = "cleaned"
    /\ twice' = cleanScript(cleaned)
    /\ cpc' = "twice"
    /\ UNCHANGED <<text, cleaned>>
    /\ UNCHANGED <<synthVars, codecVars, flowVars>>

NextClean == CleanFirst \/ CleanSecond

SpecClean == InitClean /\ [][NextClean]_vars

(***************************************************************************)
(* synthesizePodcast, geminiService.ts:317-372: the segmenting loop        *)
(***************************************************************************)
\* the character budget of a chunk
Budget == 800

Speakers == {"host", "guest"}

\* cleanScript keeps only lines that match the pattern, so a line of a
\* non-empty cleaned text has at least two characters
LineLens == {2, 399, 400, 800, 801}
DialogueLines == [who : Speakers, len : LineLens]

\* ''.split('\n') is ['']: the one line of an empty cleaned text
EmptyLine == [who |-> "none", len |-> 0]

\* the values cleaned.split('\n') takes, up to n lines
LinesUpTo(S, n) == {<<EmptyLine>>} \cup UNION {[1..k -> S] : k \in 1..n}

\* .length of a chunk: every line it holds is followed by one "\n"
RECURSIVE StrLen(_)
StrLen(chunk) ==
    IF chunk = <<>> THEN 0 ELSE chunk[1].len + 1 + StrLen(Tail(chunk))

\* (mutant) the chunk is reset to "" when it is pushed: the line is lost
SegmentLineDropsLine ==
    /\ pc = "segment"
    /\ lineIdx < Len(lines)
    /\ LET line == lines[lineIdx + 1]
       IN IF StrLen(currentChunk) + line.len > Budget
          THEN /\ chunks' = Append(chunks, currentChunk)
               /\ currentChunk' = <<>>
          ELSE /\ currentChunk' = Append(currentChunk, line)
               /\ UNCHANGED chunks
    /\ lineIdx' = lineIdx + 1
    /\ UNCHANGED <<lines, pc, i, buffers, inFlight, calls, responses, warned,
                   progress, final, error, cancelled>>
    /\ UNCHANGED <<cleanVars, codecVars, flowVars>>

\* (mutant) the test looks at the chunk alone, not at the chunk with the line
SegmentLineIgnoresLine ==
    /\ pc = "segment"
    /\ lineIdx < Len(lines)
    /\ LET line == lines[lineIdx + 1]
       IN IF StrLen(currentChunk) > Budget
          THEN /\ chunks' = Append(chunks, currentChunk)
               /\ currentChunk' = <<line>>
          ELSE /\ currentChunk' = Append(currentChunk, line)
               /\ UNCHANGED chunks
    /\ lineIdx' = lineIdx + 1
    /\ UNCHANGED <<lines, pc, i, buffers, inFlight, calls, responses, warned,
                   progress, final, error, cancelled>>
    /\ UNCHANGED <<cleanVars, codecVars, flowVars>>

\* one iteration of `for (const line of lines)`, line 324-325
SegmentLine ==
    /\ pc = "segment"
    /\ lineIdx < Len(lines)
    /\ LET line == lines[lineIdx + 1]
       IN IF StrLen(currentChunk) + line.len > Budget
          THEN /\ chunks' = Append(chunks, currentChunk)
               /\ currentChunk' = <<line>>
          ELSE /\ currentChunk' = Append(currentChunk, line)
               /\ UNCHANGED chunks
    /\ lineIdx' = lineIdx + 1
    /\ UNCHANGED <<lines, pc, i, buffers, inFlight, calls, responses, warned,
                   progress, final, error, cancelled>>
    /\ UNCHANGED <<cleanVars, codecVars, flowVars>>

\* the end of the loop and `if (currentChunk) chunks.push(currentChunk)`, line 327
SegmentEnd ==
    /\ pc = "segment"
    /\ lineIdx = Len(lines)
    /\ chunks' = IF currentChunk # <<>> THEN Append(chunks, currentChunk) ELSE chunks
    /\ pc' = "synth"
    /\ UNCHANGED <<lines, lineIdx, currentChunk, i, buffers, inFlight, calls,
                   responses, warned, progress, final, error, cancelled>>
    /\ UNCHANGED <<cleanVars, codecVars, flowVars>>

CleanIdle == text = <<>> /\ cleaned = <<>> /\ twice = <<>> /\ cpc = "off"

SynthStart ==
    /\ lineIdx = 0 /\ currentChunk = <<>> /\ chunks = <<>>
    /\ pc = "segment" /\ i = 0 /\ buffers = <<>> /\ inFlight = {} /\ calls = <<>>
    /\ responses = <<>> /\ warned = <<>> /\ progress = <<>> /\ final = <<>>
    /\ error = "none" /\ cancelled = FALSE

\* SpecSeg: the segmenting loop alone, on every text of up to MaxLines lines
InitSeg ==
    /\ lines \in LinesUpTo(DialogueLines, MaxLines)
    /\ SynthStart
    /\ CleanIdle
    /\ CodecIdle
    /\ FlowStart

NextSeg == SegmentLine \/ SegmentEnd

SpecSeg == InitSeg /\ [][NextSeg]_vars

(***************************************************************************)
(* synthesizePodcast: the synthesis loop, lines 329-364                    *)
(***************************************************************************)
\* what the service can answer to one generateContent call:
\*   reject     the awaited promise rejects
\*   nodata     candidates?.[0]?...?.inlineData?.data is undefined or ''
\*   badbase64  atob throws on the data
\*   bytes      atob yields these bytes
Payloads == {<<>>, <<7>>, <<0, 64>>, <<0, 192, 255, 127>>}
Responses ==
    [kind : {"reject", "nodata", "badbase64"}, bytes : {<<>>}]
        \cup [kind : {"bytes"}, bytes : Payloads]

\* (mutant) the two bytes of a sample are read high byte first
Int16AtBigEndian(bytes, k) ==
    LET u == 256 * bytes[2 * k - 1] + bytes[2 * k]
    IN IF u >= 32768 THEN u - 65536 ELSE u

\* (mutant) the sample is read as an unsigned 16-bit value
Int16AtUnsigned(bytes, k) == bytes[2 * k - 1] + 256 * bytes[2 * k]

\* element k of new Int16Array(bytes.buffer), little-endian, two's complement
Int16At(bytes, k) ==
    LET u == bytes[2 * k - 1] + 256 * bytes[2 * k]
    IN IF u >= 32768 THEN u - 65536 ELSE u

\* new Int16Array(bytes.buffer) throws a RangeError when the byte length is odd
Int16Throws(bytes) == Len(bytes) % 2 = 1

\* channelData[j] = dataInt16[j] / 32768.0 (a sample k is the float k / 32768)
DecodeSamples(bytes) == [k \in 1..(Len(bytes) \div 2) |-> Int16At(bytes, k)]

\* the statement inside the try throws for this response
ChunkThrows(resp) ==
    \/ resp.kind \in {"reject", "badbase64"}
    \/ resp.kind = "bytes" /\ Int16Throws(resp.bytes)

\* (mutant) line 354 is missing: a payload of zero samples is pushed too
PushesBufferNoLengthTest(resp) ==
    /\ resp.kind = "bytes"
    /\ ~Int16Throws(resp.bytes)

\* the response makes the loop body push a buffer (lines 349 and 354)
PushesBuffer(resp) ==
    /\ resp.kind = "bytes"
    /\ ~Int16Throws(resp.bytes)
    /\ Len(resp.bytes) \div 2 > 0

\* (mutant) the call is not awaited: the loop goes on while it is in flight
IssueCallNoAwait ==
    /\ pc = "synth"
    /\ i < Len(chunks)
    /\ progress' = Append(progress, <<i + 1, Len(chunks)>>)
    /\ calls' = Append(calls, i)
    /\ inFlight' = inFlight \cup {i}
    /\ i' = i + 1
    /\ UNCHANGED <<lines, lineIdx, currentChunk, chunks, pc, buffers, responses,
                   warned, final, error, cancelled>>
    /\ UNCHANGED <<cleanVars, codecVars, flowVars>>

\* (mutant) line 331 is missing: the call is issued without onProgress
IssueCallNoProgress ==
    /\ pc = "synth"
    /\ i < Len(chunks)
    /\ calls' = Append(calls, i)
    /\ inFlight' = inFlight \cup {i}
    /\ pc' = "await"
    /\ UNCHANGED <<lines, lineIdx, currentChunk, chunks, i, buffers, responses,
                   warned, progress, final, error, cancelled>>
    /\ UNCHANGED <<cleanVars, codecVars, flowVars>>

\* (mutant) the loop test is i <= chunks.length
IssueCallPastEnd ==
    /\ pc = "synth"
    /\ i <= Len(chunks)
    /\ progress' = Append(progress, <<i + 1, Len(chunks)>>)
    /\ calls' = Append(calls, i)
    /\ inFlight' = inFlight \cup {i}
    /\ pc' = "await"
    /\ UNCHANGED <<lines, lineIdx, currentChunk, chunks, i, buffers, responses,
                   warned, final, error, cancelled>>
    /\ UNCHANGED <<cleanVars, codecVars, flowVars>>

\* the loop test, onProgress(i + 1, chunks.length) and the generateContent
\* call up to its await, lines 330-333
IssueCall ==
    /\ pc = "synth"
    /\ i < Len(chunks)
    /\ progress' = Append(progress, <<i + 1, Len(chunks)>>)
    /\ calls' = Append(calls, i)
    /\ inFlight' = inFlight \cup {i}
    /\ pc' = "await"
    /\ UNCHANGED <<lines, lineIdx, currentChunk, chunks, i, buffers, responses,
                   warned, final, error, cancelled>>
    /\ UNCHANGED <<cleanVars, codecVars, flowVars>>

\* (mutant) no try/catch around the loop body: the error leaves the function
SettleUncaught(resp) ==
    /\ pc = "await"
    /\ i \in inFlight
    /\ inFlight' = inFlight \ {i}
    /\ responses' = Append(responses, resp)
    /\ IF ChunkThrows(resp)
       THEN /\ error' = "chunk failed"
            /\ pc' = "thrown"
            /\ UNCHANGED <<buffers, i>>
       ELSE /\ buffers' = IF PushesBuffer(resp)
                          THEN Append(buffers, DecodeSamples(resp.bytes))
                          ELSE buffers
            /\ i' = i + 1
            /\ pc' = "synth"
            /\ UNCHANGED error
    /\ UNCHANGED <<lines, lineIdx, currentChunk, chunks, calls, warned, progress,
                   final, cancelled>>
    /\ UNCHANGED <<cleanVars, codecVars, flowVars>>

\* (mutant) a failed chunk is tried again: i is not advanced in the catch
SettleRetry(resp) ==
    /\ pc = "await"
    /\ i \in inFlight
    /\ inFlight' = inFlight \ {i}
    /\ responses' = Append(responses, resp)
    /\ IF ChunkThrows(resp)
       THEN /\ warned' = Append(warned, i)
            /\ UNCHANGED <<buffers, i>>
       ELSE /\ buffers' = IF PushesBuffer(resp)
                          THEN Append(buffers, DecodeSamples(resp.bytes))
                          ELSE buffers
            /\ i' = i + 1
            /\ UNCHANGED warned
    /\ pc' = "synth"
    /\ UNCHANGED <<lines, lineIdx, currentChunk, chunks, calls, progress, final,
                   error, cancelled>>
    /\ UNCHANGED <<cleanVars, codecVars, flowVars>>

\* the awaited call settles with resp; the rest of the loop body, the catch
\* and i++, lines 333-364
SettleWith(resp) ==
    /\ pc = "await"
    /\ i \in inFlight
    /\ inFlight' = inFlight \ {i}
    /\ responses' = Append(responses, resp)
    /\ IF ChunkThrows(resp)
       THEN /\ warned' = Append(warned, i)
            /\ UNCHANGED buffers
       ELSE /\ buffers' = IF PushesBuffer(resp)
                          THEN Append(buffers, DecodeSamples(resp.bytes))
                          ELSE buffers
            /\ UNCHANGED warned
    /\ i' = i + 1
    /\ pc' = "synth"
    /\ UNCHANGED <<lines, lineIdx, currentChunk, chunks, calls, progress, final,
                   error, cancelled>>
    /\ UNCHANGED <<cleanVars, codecVars, flowVars>>

Settle == \E resp \in Responses : SettleWith(resp)

(***************************************************************************)
(* synthesizePodcast: the assembly, lines 366-371                          *)
(***************************************************************************)
\* new Error("...") of line 366
FatalError == "synthesis failed"

\* buffers.reduce((acc, b) => acc + b.length, 0)
RECURSIVE TotalLength(_)
TotalLength(bs) == IF bs = <<>> THEN 0 ELSE Len(bs[1]) + TotalLength(Tail(bs))

\* audioContext.createBuffer(1, n, 24000): n samples of silence
CreateBuffer(n) == [k \in 1..n |-> 0]

\* target.set(source, offset) of a Float32Array
SetAt(target, source, offset) ==
    [k \in 1..Len(target) |->
        IF k > offset /\ k <= offset + Len(source) THEN source[k - offset]
        ELSE target[k]]

\* for (const b of buffers) { final...set(b..., offset); offset += b.length; }
RECURSIVE CopyAll(_, _, _)
CopyAll(target, bs, offset) ==
    IF bs = <<>> THEN target
    ELSE CopyAll(SetAt(target, bs[1], offset), Tail(bs), offset + Len(bs[1]))

\* (mutant) offset is never advanced
RECURSIVE CopyAllAtZero(_, _)
CopyAllAtZero(target, bs) ==
    IF bs = <<>> THEN target
    ELSE CopyAllAtZero(SetAt(target, bs[1], 0), Tail(bs))

AssembleNoOffset(bs) == CopyAllAtZero(CreateBuffer(TotalLength(bs)), bs)

Assemble(bs) == CopyAll(CreateBuffer(TotalLength(bs)), bs, 0)

\* (mutant) line 366 is missing: an empty result is returned
FinishNoCheck ==
    /\ pc = "synth"
    /\ i >= Len(chunks)
    /\ final' = Assemble(buffers)
    /\ pc' = "returned"
    /\ UNCHANGED <<lines, lineIdx, currentChunk, chunks, i, buffers, inFlight,
                   calls, responses, warned, progress, error, cancelled>>
    /\ UNCHANGED <<cleanVars, codecVars, flowVars>>

\* the loop test fails; lines 366-371
Finish ==
    /\ pc = "synth"
    /\ i >= Len(chunks)
    /\ IF Len(buffers) = 0
       THEN /\ error' = FatalError
            /\ pc' = "thrown"
            /\ UNCHANGED final
       ELSE /\ final' = Assemble(buffers)
            /\ pc' = "returned"
            /\ UNCHANGED error
    /\ UNCHANGED <<lines, lineIdx, currentChunk, chunks, i, buffers, inFlight,
                   calls, responses, warned, progress, cancelled>>
    /\ UNCHANGED <<cleanVars, codecVars, flowVars>>

\* The caller gives up on the generation while synthesizePodcast runs: other
\* code runs only while the function is suspended at its await.  The function
\* takes (script, audioContext, onProgress): nothing it reads changes.
Cancel ==
    /\ pc = "await"
    /\ ~cancelled
    /\ cancelled' = TRUE
    /\ UNCHANGED <<lines, lineIdx, currentChunk, chunks, pc, i, buffers, inFlight,
                   calls, responses, warned, progress, final, error>>
    /\ UNCHANGED <<cleanVars, codecVars, flowVars>>

(***************************************************************************)
(* Spec: one run of synthesizePodcast                                      *)
(***************************************************************************)
ScriptLines == {[who |-> "host", len |-> 400], [who |-> "guest", len |-> 801]}

Init ==
    /\ lines \in LinesUpTo(ScriptLines, MaxScriptLines)
    /\ SynthStart
    /\ CleanIdle
    /\ CodecIdle
    /\ FlowStart

Next == SegmentLine \/ SegmentEnd \/ IssueCall \/ Settle \/ Finish \/ Cancel

Spec == Init /\ [][Next]_vars

(***************************************************************************)
(* The two payload decoders: the inline one of synthesizePodcast (lines    *)
(* 350-359) and decodeAudioData (src/unnamed/part_000:212-229, the same    *)
(* text as geminiService.ts:516-533).                                      *)
(***************************************************************************)
\* the body of `if (base64Audio)` of synthesizePodcast on these bytes: whether
\* it throws, and the samples of the buffer it pushes (none: nothing pushed)
InlineDecode(bytes) ==
    IF Int16Throws(bytes) THEN [threw |-> TRUE, samples |-> <<>>]
    ELSE [threw |-> FALSE, samples |-> DecodeSamples(bytes)]

\* new Int16Array(data.buffer, data.byteOffset, data.byteLength / 2): the
\* length argument goes through ToIndex, which drops the fraction
Int16Count(bytes) == Len(bytes) \div 2

\* ctx.createBuffer(numChannels, frameCount, sampleRate) throws a
\* NotSupportedError for a buffer of no frames
CreateBufferThrows(frameCount) == frameCount < 1

\* decodeAudioData(data, ctx, sampleRate, numChannels)
decodeAudioData(bytes, sampleRate, numChannels) ==
    LET n == Int16Count(bytes)
        frameCount == n \div numChannels
    IN IF CreateBufferThrows(frameCount)
       THEN [threw |-> TRUE, sampleRate |-> sampleRate,
             numberOfChannels |-> numChannels, channels |-> <<>>]
       ELSE [threw |-> FALSE, sampleRate |-> sampleRate,
             numberOfChannels |-> numChannels,
             channels |-> [channel \in 1..numChannels |->
                              [f \in 1..frameCount |->
                                  Int16At(bytes, (f - 1) * numChannels + channel)]]]

\* Every step of the function is taken once it can be, and every call in
\* flight settles; nothing is assumed of the caller.
Fairness ==
    /\ WF_vars(SegmentLine)
    /\ WF_vars(SegmentEnd)
    /\ WF_vars(IssueCall)
    /\ WF_vars(Settle)
    /\ WF_vars(Finish)

SpecLive == Init /\ [][Next]_vars /\ Fairness

(***************************************************************************)
(* SpecDup: the second segmented synthesizePodcast, geminiService.ts       *)
(* lines 933-989.  Its segmenting loop (936-944) and the head of its       *)
(* synthesis loop (947-949) are the text of lines 319-333; its loop body   *)
(* has no try/catch and no test of the decoded length, and there is no     *)
(* test of buffers.length before the assembly.                             *)
(***************************************************************************)
\* lines 949-979 once the awaited call has settled with resp
SettleDupWith(resp) ==
    /\ pc = "await"
    /\ i \in inFlight
    /\ inFlight' = inFlight \ {i}
    /\ responses' = Append(responses, resp)
    /\ IF ChunkThrows(resp)
       THEN \* the rejection, atob or new Int16Array throws out of the function
            /\ error' = "chunk failed"
            /\ pc' = "thrown"
            /\ UNCHANGED <<buffers, i>>
       ELSE IF resp.kind = "bytes" /\ CreateBufferThrows(Len(resp.bytes) \div 2)
       THEN \* createBuffer(1, 0, 24000), line 972
            /\ error' = "NotSupportedError"
            /\ pc' = "thrown"
            /\ UNCHANGED <<buffers, i>>
       ELSE /\ buffers' = IF resp.kind = "bytes"
                          THEN Append(buffers, DecodeSamples(resp.bytes))
                          ELSE buffers
            /\ i' = i + 1
            /\ pc' = "synth"
            /\ UNCHANGED error
    /\ UNCHANGED <<lines, lineIdx, currentChunk, chunks, calls, warned, progress,
                   final, cancelled>>
    /\ UNCHANGED <<cleanVars, codecVars, flowVars>>

SettleDup == \E resp \in Responses : SettleDupWith(resp)

\* the loop test fails; lines 981-988
FinishDup ==
    /\ pc = "synth"
    /\ i >= Len(chunks)
    /\ IF CreateBufferThrows(TotalLength(buffers))
       THEN /\ error' = "NotSupportedError"
            /\ pc' = "thrown"
            /\ UNCHANGED final
       ELSE /\ final' = Assemble(buffers)
            /\ pc' = "returned"
            /\ UNCHANGED error
    /\ UNCHANGED <<lines, lineIdx, currentChunk, chunks, i, buffers, inFlight,
                   calls, responses, warned, progress, cancelled>>
    /\ UNCHANGED <<cleanVars, codecVars, flowVars>>

NextDup == SegmentLine \/ SegmentEnd \/ IssueCall \/ SettleDup \/ FinishDup

SpecDup == Init /\ [][NextDup]_vars

(***************************************************************************)
(* bufferToWav, geminiService.ts:574-624 (src/unnamed/part_000:264-292 is  *)
(* the same function).  An AudioBuffer is a record [sampleRate,            *)
(* numberOfChannels, length, channels]; a float of its channel data is the *)
(* integer h standing for h / 65536, which makes sample * 32768 and        *)
(* sample * 32767 exact, as they are in double arithmetic on float32       *)
(* values.  The values written stay below 2^31, so setUint32 never wraps.  *)
(***************************************************************************)
\* view.setUint16(pos, data, true) and view.setUint32(pos, data, true)
U16Bytes(v) == <<v % 256, (v \div 256) % 256>>
U32Bytes(v) ==
    <<v % 256, (v \div 256) % 256, (v \div 65536) % 256, (v \div 16777216) % 256>>

\* view.setInt16(pos, sample, true): two's complement, modulo 2^16
I16Bytes(v) == U16Bytes(v % 65536)

\* x | 0 for a quotient num / den of magnitude below 2^31: the fraction is cut off
TruncDiv(num, den) == IF num >= 0 THEN num \div den ELSE -((-num) \div den)

\* Math.max(-1, Math.min(1, x))
Clamp(h) ==
    LET m == IF h < 65536 THEN h ELSE 65536
    IN IF m > -65536 THEN m ELSE -65536

\* (mutant) every sample is scaled by 32768
ConvertSymmetric(h) == TruncDiv(Clamp(h), 2)

\* lines 606-607: the clamp, then
\* (0.5 + sample < 0 ? sample * 32768 : sample * 32767) | 0
\* (h / 65536 * 32768 is h / 2)
Convert(h) ==
    LET sample == Clamp(h)
    IN IF 32768 + sample < 0 THEN TruncDiv(sample, 2)
       ELSE TruncDiv(sample * 32767, 65536)

\* const length = buffer.length * numOfChan * 2 + 44
WavLength(buffer) == buffer.length * buffer.numberOfChannels * 2 + 44

\* (mutant) the byte rate leaves out the channel count
HeaderFieldsMonoRate(buffer) ==
    <<U32Bytes(1179011410), U32Bytes(WavLength(buffer) - 8), U32Bytes(1163280727),
      U32Bytes(544501094), U32Bytes(16), U16Bytes(1),
      U16Bytes(buffer.numberOfChannels), U32Bytes(buffer.sampleRate),
      U32Bytes(buffer.sampleRate * 2),
      U16Bytes(buffer.numberOfChannels * 2), U16Bytes(16),
      U32Bytes(1635017060)>>

\* the writes of lines 585-598, in order
HeaderFields(buffer) ==
    <<U32Bytes(1179011410), U32Bytes(WavLength(buffer) - 8), U32Bytes(1163280727),
      U32Bytes(544501094), U32Bytes(16), U16Bytes(1),
      U16Bytes(buffer.numberOfChannels), U32Bytes(buffer.sampleRate),
      U32Bytes(buffer.sampleRate * 2 * buffer.numberOfChannels),
      U16Bytes(buffer.numberOfChannels * 2), U16Bytes(16),
      U32Bytes(1635017060)>>

\* the bytes written one field after the other, each at pos
RECURSIVE WriteAll(_)
WriteAll(fields) ==
    IF fields = <<>> THEN <<>> ELSE fields[1] \o WriteAll(Tail(fields))

\* lines 585-599; line 599 writes length - pos - 4 at pos
WavHeader(buffer) ==
    LET head == WriteAll(HeaderFields(buffer))
    IN head \o U32Bytes(WavLength(buffer) - Len(head) - 4)

\* the inner for loop of lines 605-610 for the frame at offset
FrameBytes(buffer, offset) ==
    WriteAll([c \in 1..buffer.numberOfChannels |->
                 I16Bytes(Convert(buffer.channels[c][offset + 1]))])

\* while (pos < length) { ...; offset++ }, pos being the bytes written so far
RECURSIVE WriteFrames(_, _, _)
WriteFrames(buffer, out, offset) ==
    IF Len(out) < WavLength(buffer)
    THEN WriteFrames(buffer, out \o FrameBytes(buffer, offset), offset + 1)
    ELSE out

bufferToWav(buffer) == WriteFrames(buffer, WavHeader(buffer), 0)

\* audioContext.createBuffer(1, n, 24000) filled with the samples k / 32768
MonoBuffer(samples) ==
    [sampleRate |-> 24000, numberOfChannels |-> 1, length |-> Len(samples),
     channels |-> <<[k \in 1..Len(samples) |-> 2 * samples[k]]>>]

(***************************************************************************)
(* SpecDecode: one payload through both decoders, the inline result then   *)
(* serialized by bufferToWav.                                              *)
(***************************************************************************)
ByteVals == {0, 1, 64, 127, 128, 192, 255}

\* the samples 0, 16384, -16384, 32767
ScenarioPayload == <<0, 0, 0, 64, 0, 192, 255, 127>>

PayloadBytes ==
    UNION {[1..n -> ByteVals] : n \in 0..MaxPayloadBytes} \cup {ScenarioPayload}

InitDecode ==
    /\ payload \in PayloadBytes
    /\ decInline = <<>> /\ decFn = <<>> /\ wavIn = <<>> /\ wavOut = <<>>
    /\ kpc = "raw"
    /\ SynthIdle
    /\ CleanIdle
    /\ FlowStart

\* lines 353-359 of synthesizePodcast on the payload
DecodeInline ==
    /\ kpc = "raw"
    /\ decInline' = InlineDecode(payload)
    /\ kpc' = "inline"
    /\ UNCHANGED <<payload, decFn, wavIn, wavOut>>
    /\ UNCHANGED <<cleanVars, synthVars, flowVars>>

\* decodeAudioData(decode(base64Audio), audioContext, 24000, 1)
DecodeFn ==
    /\ kpc = "inline"
    /\ decFn' = decodeAudioData(payload, 24000, 1)
    /\ kpc' = "decoded"
    /\ UNCHANGED <<payload, decInline, wavIn, wavOut>>
    /\ UNCHANGED <<cleanVars, synthVars, flowVars>>

\* the buffer the pipeline decoded is serialized
EncodeDecoded ==
    /\ kpc = "decoded"
    /\ ~decInline.threw
    /\ decInline.samples # <<>>
    /\ wavIn' = MonoBuffer(decInline.samples)
    /\ wavOut' = bufferToWav(wavIn')
    /\ kpc' = "encoded"
    /\ UNCHANGED <<payload, decInline, decFn>>
    /\ UNCHANGED <<cleanVars, synthVars, flowVars>>

NextDecode == DecodeInline \/ DecodeFn \/ EncodeDecoded

SpecDecode == InitDecode /\ [][NextDecode]_vars

(***************************************************************************)
(* SpecWav: bufferToWav on an AudioBuffer                                  *)
(***************************************************************************)
SampleRates == {24000, 44100}

\* floats h / 65536: beyond, at and next to the clamp bounds, around the
\* -0.5 at which the scale changes, and around 0
MonoFloats ==
    {-131072, -65536, -65535, -32769, -32768, -32767, -1, 0, 1, 32768, 65535,
     65536, 131072}
StereoFloats == {-32768, 0, 65535}

BuffersOf(numChannels, floats) ==
    UNION {[sampleRate : SampleRates, numberOfChannels : {numChannels},
            length : {n}, channels : [1..numChannels -> [1..n -> floats]]]
               : n \in 0..MaxFrames}

WavBuffers == BuffersOf(1, MonoFloats) \cup BuffersOf(2, StereoFloats)

InitWav ==
    /\ wavIn \in WavBuffers
    /\ payload = <<>> /\ decInline = <<>> /\ decFn = <<>> /\ wavOut = <<>>
    /\ kpc = "wav"
    /\ SynthIdle
    /\ CleanIdle
    /\ FlowStart

EncodeWav ==
    /\ kpc = "wav"
    /\ wavOut' = bufferToWav(wavIn)
    /\ kpc' = "encoded"
    /\ UNCHANGED <<payload, decInline, decFn, wavIn>>
    /\ UNCHANGED <<cleanVars, synthVars, flowVars>>

NextWav == EncodeWav

SpecWav == InitWav /\ [][NextWav]_vars

(***************************************************************************)
(* SpecFlow: the workflow of App.tsx.  The state is the React state that   *)
(* startWorkflow writes: currentStep, keyword, content, executionLogs and  *)
(* errorOccurred.  A run is an invocation of startWorkflow that passed the *)
(* test of line 46, the record                                             *)
(*   [k, at, status, steps, resolved, notes]:                              *)
(* its keyword, the service call it awaits (or awaited last), "awaiting" | *)
(* "completed" | "failed", the steps it handed to setCurrentStep, the      *)
(* calls that resolved for it and the number of its collectMaterials       *)
(* notes.  A field of content gathered by run r has the value ToString(r); *)
(* a log entry is [msg, arg, type], msg naming the message of the source.  *)
(* A handler runs from its start, or from the settling of the call it      *)
(* awaits, to its next await without interruption, and React has rendered  *)
(* its state updates before the next event is handled.  The AudioContext   *)
(* constructor of line 54 is taken to succeed.                             *)
(***************************************************************************)
\* what the user can type into the input of line 174
Typed == {"", "gold"}

\* the topics fetchTrendingTopics delivered (line 29)
Topics == {"bonds"}

\* enum WorkflowStep, types.ts
WorkflowStep ==
    {"IDLE", "TRIGGER", "RESEARCH", "INSIGHTS", "OUTLINE", "DRAFTING", "REVIEW",
     "SYNTHESIS", "COMPLETED"}

\* the step fields of STEPS_CONFIG, in its order
STEPS_CONFIG ==
    <<"TRIGGER", "RESEARCH", "INSIGHTS", "OUTLINE", "DRAFTING", "REVIEW",
      "SYNTHESIS">>

\* the service calls startWorkflow awaits, in the order of its text
ServiceCalls ==
    <<"collectMaterials", "generateHighlightsAndHooks", "generateOutline",
      "generateEpisodeTitle", "generateScript", "synthesizePodcast">>

NextCall(call) ==
    CASE call = "collectMaterials" -> "generateHighlightsAndHooks"
      [] call = "generateHighlightsAndHooks" -> "generateOutline"
      [] call = "generateOutline" -> "generateEpisodeTitle"
      [] call = "generateEpisodeTitle" -> "generateScript"
      [] call = "generateScript" -> "synthesizePodcast"
      [] call = "synthesizePodcast" -> "synthesizePodcast"

\* the fields the setContent after the call adds to content
FieldsOf(call) ==
    CASE call = "collectMaterials" -> {"materials", "groundingLinks"}
      [] call = "generateHighlightsAndHooks" -> {"hooks", "highlights"}
      [] call = "generateOutline" -> {}
      [] call = "generateEpisodeTitle" -> {"outline", "title"}
      [] call = "generateScript" -> {"finalScript"}
      [] call = "synthesizePodcast" -> {"audioBuffer"}

\* (mutant) the draft goes to the REVIEW step before the synthesis
StepAfterWithReview(call) ==
    CASE call = "collectMaterials" -> "INSIGHTS"
      [] call = "generateHighlightsAndHooks" -> "OUTLINE"
      [] call = "generateOutline" -> ""
      [] call = "generateEpisodeTitle" -> "DRAFTING"
      [] call = "generateScript" -> "REVIEW"
      [] call = "synthesizePodcast" -> "COMPLETED"

\* the argument of the setCurrentStep that follows the call ("": there is
\* none before the next await)
StepAfter(call) ==
    CASE call = "collectMaterials" -> "INSIGHTS"
      [] call = "generateHighlightsAndHooks" -> "OUTLINE"
      [] call = "generateOutline" -> ""
      [] call = "generateEpisodeTitle" -> "DRAFTING"
      [] call = "generateScript" -> "SYNTHESIS"
      [] call = "synthesizePodcast" -> "COMPLETED"

Log(msg, arg, type) == [msg |-> msg, arg |-> arg, type |-> type]

\* the addLog calls between the resolution of the call and the next await
LogsAfter(call) ==
    CASE call = "collectMaterials" ->
             <<Log("collected", "", "success"), Log("insights", "", "working")>>
      [] call = "generateHighlightsAndHooks" ->
             <<Log("designed", "", "success"), Log("outline", "", "working")>>
      [] call = "generateOutline" -> <<>>
      [] call = "generateEpisodeTitle" ->
             <<Log("title", "", "success"), Log("drafting", "", "working")>>
      [] call = "generateScript" ->
             <<Log("drafted", "", "success"), Log("synthesis", "", "working")>>
      [] call = "synthesizePodcast" -> <<Log("finished", "", "success")>>

\* onChange of the input, line 176; the input is rendered in the IDLE view
TypeKeyword ==
    /\ currentStep = "IDLE"
    /\ \E v \in Typed : keyword' = v
    /\ UNCHANGED <<currentStep, content, executionLogs, errorOccurred, runs>>
    /\ UNCHANGED <<cleanVars, synthVars, codecVars>>

\* (mutant) line 50 merges the keyword into the content of the run before
startWorkflowKeepsContent(target) ==
    LET k == IF target # "" THEN target ELSE keyword
    IN IF k = ""
       THEN UNCHANGED flowVars
       ELSE /\ Len(runs) < MaxRuns
            /\ keyword' = k
            /\ errorOccurred' = FALSE
            /\ currentStep' = "RESEARCH"
            /\ content' = ("keyword" :> k) @@ content
            /\ executionLogs' =
                   <<Log("start", k, "info"), Log("collect", "", "working")>>
            /\ runs' = Append(runs, [k |-> k, at |-> "collectMaterials",
                                     status |-> "awaiting",
                                     steps |-> <<"RESEARCH">>,
                                     resolved |-> <<>>, notes |-> 0])

\* startWorkflow(target) up to the await of line 57; target "" stands for the
\* call without argument
startWorkflow(target) ==
    LET k == IF target # "" THEN target ELSE keyword
    IN IF k = ""
       THEN UNCHANGED flowVars
       ELSE /\ Len(runs) < MaxRuns
            /\ keyword' = k
            /\ errorOccurred' = FALSE
            /\ currentStep' = "RESEARCH"
            /\ content' = ("keyword" :> k)
            /\ executionLogs' =
                   <<Log("start", k, "info"), Log("collect", "", "working")>>
            /\ runs' = Append(runs, [k |-> k, at |-> "collectMaterials",
                                     status |-> "awaiting",
                                     steps |-> <<"RESEARCH">>,
                                     resolved |-> <<>>, notes |-> 0])

\* Enter in the input or the start button, lines 179 and 181 (IDLE view)
ClickStart ==
    /\ currentStep = "IDLE"
    /\ startWorkflow("")
    /\ UNCHANGED <<cleanVars, synthVars, codecVars>>

\* a trending button, line 227 (IDLE view)
ClickTrending ==
    /\ currentStep = "IDLE"
    /\ \E t \in Topics : startWorkflow(t)
    /\ UNCHANGED <<cleanVars, synthVars, codecVars>>

\* (mutant) the retry button is rendered whether errorOccurred or not
ClickRetryAnytime ==
    /\ currentStep # "IDLE"
    /\ startWorkflow("")
    /\ UNCHANGED <<cleanVars, synthVars, codecVars>>

\* one of the retry buttons, lines 249-250 and 399-406: rendered outside the
\* IDLE view under errorOccurred
ClickRetry ==
    /\ currentStep # "IDLE"
    /\ errorOccurred
    /\ startWorkflow("")
    /\ UNCHANGED <<cleanVars, synthVars, codecVars>>

\* collectMaterials calls its onProgress: addLog(msg, "working"), line 57
MaterialsNote(r) ==
    /\ r \in 1..Len(runs)
    /\ runs[r].status = "awaiting"
    /\ runs[r].at = "collectMaterials"
    /\ runs[r].notes < MaxNotes
    /\ executionLogs' = Append(executionLogs, Log("note", "", "working"))
    /\ runs' = [runs EXCEPT ![r].notes = @ + 1]
    /\ UNCHANGED <<currentStep, keyword, content, errorOccurred>>
    /\ UNCHANGED <<cleanVars, synthVars, codecVars>>

\* the call run r awaits resolves: lines 58-97 from that await to the next
StageResolves(r) ==
    /\ r \in 1..Len(runs)
    /\ runs[r].status = "awaiting"
    /\ LET call == runs[r].at
           step == StepAfter(call)
           last == call = "synthesizePodcast"
       IN /\ content' = [f \in FieldsOf(call) |-> ToString(r)] @@ content
          /\ executionLogs' = executionLogs \o LogsAfter(call)
          /\ currentStep' = IF step = "" THEN currentStep ELSE step
          /\ runs' = [runs EXCEPT
                          ![r].at = NextCall(call),
                          ![r].status = IF last THEN "completed" ELSE "awaiting",
                          ![r].steps = IF step = "" THEN @ ELSE Append(@, step),
                          ![r].resolved = Append(@, call)]
    /\ UNCHANGED <<keyword, errorOccurred>>
    /\ UNCHANGED <<cleanVars, synthVars, codecVars>>

\* (mutant) the catch block empties content
StageRejectsClearing(r) ==
    /\ r \in 1..Len(runs)
    /\ runs[r].status = "awaiting"
    /\ executionLogs' = Append(executionLogs, Log("interrupted", "", "error"))
    /\ errorOccurred' = TRUE
    /\ content' = ("keyword" :> content["keyword"])
    /\ runs' = [runs EXCEPT ![r].status = "failed"]
    /\ UNCHANGED <<currentStep, keyword>>
    /\ UNCHANGED <<cleanVars, synthVars, codecVars>>

\* (mutant) the catch block goes back to the IDLE view
StageRejectsToIdle(r) ==
    /\ r \in 1..Len(runs)
    /\ runs[r].status = "awaiting"
    /\ executionLogs' = Append(executionLogs, Log("interrupted", "", "error"))
    /\ errorOccurred' = TRUE
    /\ currentStep' = "IDLE"
    /\ runs' = [runs EXCEPT ![r].status = "failed"]
    /\ UNCHANGED <<keyword, content>>
    /\ UNCHANGED <<cleanVars, synthVars, codecVars>>

\* the call run r awaits rejects: the catch block, lines 99-104
StageRejects(r) ==
    /\ r \in 1..Len(runs)
    /\ runs[r].status = "awaiting"
    /\ executionLogs' = Append(executionLogs, Log("interrupted", "", "error"))
    /\ errorOccurred' = TRUE
    /\ runs' = [runs EXCEPT ![r].status = "failed"]
    /\ UNCHANGED <<currentStep, keyword, content>>
    /\ UNCHANGED <<cleanVars, synthVars, codecVars>>

InitFlow ==
    /\ FlowStart
    /\ CleanIdle
    /\ SynthIdle
    /\ CodecIdle

NextFlow ==
    \/ TypeKeyword
    \/ ClickStart
    \/ ClickTrending
    \/ ClickRetry
    \/ \E r \in 1..MaxRuns : MaterialsNote(r)
    \/ \E r \in 1..MaxRuns : StageResolves(r)
    \/ \E r \in 1..MaxRuns : StageRejects(r)

SpecFlow == InitFlow /\ [][NextFlow]_vars

\* every service call settles
FairFlow == \A r \in 1..MaxRuns : WF_vars(StageResolves(r) \/ StageRejects(r))

SpecFlowLive == InitFlow /\ [][NextFlow]_vars /\ FairFlow

\* index of the first element of seq equal to x, 0-based, -1 when there is none
FindIndex(seq, x) ==
    IF \E n \in 1..Len(seq) : seq[n] = x
    THEN (CHOOSE n \in 1..Len(seq) :
              seq[n] = x /\ \A m \in 1..(n - 1) : seq[m] # x) - 1
    ELSE -1

\* getStepProgress with currentStep = step; the result is given multiplied by
\* STEPS_CONFIG.length, which keeps ((index + 1) / length) * 100 an integer
getStepProgress(step) ==
    IF step = "IDLE" THEN 0
    ELSE IF step = "COMPLETED" THEN 100 * Len(STEPS_CONFIG)
    ELSE LET index == FindIndex(STEPS_CONFIG, step)
             value == (index + 1) * 100
         IN IF value > 5 * Len(STEPS_CONFIG) THEN value ELSE 5 * Len(STEPS_CONFIG)

(***************************************************************************)
(* Properties of synthesizePodcast                                         *)
(***************************************************************************)
Terminal == pc \in {"returned", "thrown"}

Range(f) == {f[k] : k \in DOMAIN f}

\* the response carries a payload of one or more whole 16-bit samples
DecodedOk(resp) ==
    resp.kind = "bytes" /\ Len(resp.bytes) > 0 /\ Len(resp.bytes) % 2 = 0

\* the synthesis call threw, or the payload is missing, empty or undecodable
SegmentFailed(resp) == ~DecodedOk(resp)

\* C1: a failed segment never ends the loop and its error never reaches the
\* caller: the function ends only after the call of every segment was issued,
\* and the only error it ends with is the fatal one.
C1_FailureNeverAborts ==
    /\ error \in {"none", FatalError}
    /\ \A k \in 1..Len(responses) :
           (SegmentFailed(responses[k]) /\ k < Len(chunks) /\ Terminal)
               => k \in Range(calls)
    /\ Terminal => Len(responses) = Len(chunks)

\* a rejected call, then a missing payload, then an undecodable one, then a
\* segment that decodes
C1_Witness ==
    /\ pc = "returned"
    /\ Len(responses) = 4
    /\ responses[1].kind = "reject"
    /\ responses[2].kind = "nodata"
    /\ responses[3].kind = "bytes" /\ Len(responses[3].bytes) % 2 = 1
    /\ DecodedOk(responses[4])

\* C2: the function throws the fatal error exactly when no segment decoded;
\* with one decoded segment or more it returns a track and throws nothing.
C2_FatalIffNoneDecoded ==
    Terminal =>
        LET ok == {k \in 1..Len(responses) : DecodedOk(responses[k])}
        IN /\ pc = "thrown" <=> ok = {}
           /\ pc = "thrown" => error = FatalError /\ final = <<>>
           /\ pc = "returned" => error = "none" /\ final # <<>>

\* both outcomes: every segment failed; one segment of four decoded
C2_Witness ==
    \/ /\ pc = "thrown"
       /\ Len(responses) = 4
    \/ /\ pc = "returned"
       /\ Cardinality({k \in 1..Len(responses) : SegmentFailed(responses[k])}) = 3

\* the decoded samples of the segments that decoded, in segment order
RECURSIVE ConcatDecoded(_)
ConcatDecoded(resps) ==
    IF resps = <<>> THEN <<>>
    ELSE (IF DecodedOk(resps[1]) THEN DecodeSamples(resps[1].bytes) ELSE <<>>)
             \o ConcatDecoded(Tail(resps))

RECURSIVE SumDecoded(_)
SumDecoded(resps) ==
    IF resps = <<>> THEN 0
    ELSE (IF DecodedOk(resps[1]) THEN Len(resps[1].bytes) \div 2 ELSE 0)
             + SumDecoded(Tail(resps))

\* C3: the returned track is the concatenation, in segment order, of the
\* samples of the segments that decoded; failed segments add nothing.
C3_TrackIsConcatenation ==
    pc = "returned" =>
        /\ final = ConcatDecoded(responses)
        /\ Len(final) = SumDecoded(responses)

\* two segments that decode to different samples, a failed one between them
C3_Witness ==
    /\ pc = "returned"
    /\ Len(responses) >= 3
    /\ DecodedOk(responses[1])
    /\ SegmentFailed(responses[2])
    /\ DecodedOk(responses[3])
    /\ Len(responses[1].bytes) > Len(responses[3].bytes)

\* C4: the calls are issued one at a time in ascending segment index, each
\* only after the one before has settled, and buffers is only appended to,
\* with the samples of the segment that has just settled.
C4_SequentialCalls ==
    /\ [](/\ Cardinality(inFlight) <= 1
          /\ \A k \in 1..Len(calls) : calls[k] = k - 1)
    /\ [][calls' # calls =>
              /\ inFlight = {}
              /\ Len(responses) = Len(calls)
              /\ calls' = Append(calls, Len(calls))]_vars
    /\ [][buffers' # buffers =>
              /\ Len(responses') = i'
              /\ buffers' = Append(buffers,
                                   DecodeSamples(responses'[Len(responses')].bytes))]_vars

\* the third call is in flight, the first two have settled
C4_Witness ==
    /\ inFlight = {2}
    /\ Len(responses) = 2
    /\ Len(buffers) = 1

\* C5: no segment is submitted twice; at the end there was one call per segment.
C5_EachSegmentOnce ==
    /\ \A a, b \in 1..Len(calls) : a # b => calls[a] # calls[b]
    /\ Terminal =>
           /\ Len(calls) = Len(chunks)
           /\ Range(calls) = 0..(Len(chunks) - 1)

\* a run of three segments or more that ended with failed segments in it
C5_Witness ==
    /\ Terminal
    /\ Len(chunks) >= 3
    /\ \E k \in 1..Len(responses) : ChunkThrows(responses[k])
    /\ \E k \in 1..Len(responses) : responses[k].kind = "nodata"

\* C6: once the caller has cancelled, no further synthesis call is issued.
C6_NoCallAfterCancel == [][cancelled => calls' = calls]_vars

\* the text of the chunks, one after the other
RECURSIVE Flatten(_)
Flatten(cs) == IF cs = <<>> THEN <<>> ELSE cs[1] \o Flatten(Tail(cs))

\* C7: the chunks, concatenated in order, are the lines of the text, each
\* followed by its line break: none dropped, repeated, reordered or split.
C7_SegmenterCoverage ==
    /\ pc = "segment" => Flatten(chunks) \o currentChunk = SubSeq(lines, 1, lineIdx)
    /\ pc = "synth" => Flatten(chunks) = lines

\* three lines in two chunks or more, one chunk holding two lines
C7_Witness ==
    /\ pc = "synth"
    /\ Len(lines) = 3
    /\ Len(chunks) >= 2
    /\ \E c \in 1..Len(chunks) : Len(chunks[c]) = 2

\* C8: a chunk is at most Budget characters long, line breaks included,
\* unless it is a single line longer than Budget.
C8_SegmentBound ==
    pc = "synth" =>
        \A c \in 1..Len(chunks) :
            \/ StrLen(chunks[c]) <= Budget
            \/ Len(chunks[c]) = 1 /\ chunks[c][1].len > Budget

(***************************************************************************)
(* What the normalizer is required to return, stated on positions of the   *)
(* text rather than by the steps of cleanScript.                           *)
(***************************************************************************)
\* the j-th smallest element of a finite set of integers
NthOf(S, j) == CHOOSE x \in S : Cardinality({y \in S : y < x}) = j - 1

\* the lines of s: the maximal runs between line breaks
LinesOf(s) ==
    LET brk == {k \in 1..Len(s) : s[k] = NL}
        n == Cardinality(brk) + 1
        first(j) == IF j = 1 THEN 1 ELSE NthOf(brk, j - 1) + 1
        last(j) == IF j = n THEN Len(s) ELSE NthOf(brk, j) - 1
    IN [j \in 1..n |-> SubSeq(s, first(j), last(j))]

\* the line without its leading and trailing white space
TrimmedForm(l) ==
    LET ink == {k \in 1..Len(l) : l[k] \notin WhiteSpace}
    IN IF ink = {} THEN <<>>
       ELSE SubSeq(l, NthOf(ink, 1), NthOf(ink, Cardinality(ink)))

\* one or more non-colon characters, then a colon
IsDialogueLine(l) ==
    LET t == TrimmedForm(l)
    IN \E k \in 2..Len(t) : IsColon(t[k]) /\ \A j \in 1..(k - 1) : ~IsColon(t[j])

HasMarker(s) == \E k \in 1..(Len(s) - 1) : s[k] = "*" /\ s[k + 1] = "*"

\* C9: cleanScript returns the dialogue lines of the text (markers removed),
\* in their order, joined by line breaks, and the empty string for an empty,
\* missing or fully non-matching text.
C9_CleanScriptKeepsDialogueLines ==
    cpc \in {"cleaned", "twice"} =>
        /\ IsFalsy(text) => cleaned = <<>>
        /\ ~HasMarker(cleaned)
        /\ ~IsFalsy(text) =>
              LET src == LinesOf(ReplaceStars(text))
                  kept == {j \in 1..Len(src) : IsDialogueLine(src[j])}
              IN IF kept = {} THEN cleaned = <<>>
                 ELSE LinesOf(cleaned) =
                          [r \in 1..Cardinality(kept) |-> src[NthOf(kept, r)]]

\* a text of several lines of which some, not all, are kept, one of them after
\* trimming
C9_Witness ==
    /\ cpc = "cleaned"
    /\ ~IsFalsy(text)
    /\ cleaned # <<>>
    /\ Len(LinesOf(cleaned)) < Len(LinesOf(text))
    /\ \E j \in 1..Len(LinesOf(cleaned)) :
           LinesOf(cleaned)[j] # TrimmedForm(LinesOf(cleaned)[j])

\* C10: normalizing a normalized text returns it unchanged.
C10_CleanScriptIdempotent == cpc = "twice" => twice = cleaned

\* the first application removed a marker and a line, and kept a line
C10_Witness ==
    /\ cpc = "twice"
    /\ cleaned # <<>>
    /\ HasMarker(text)
    /\ Len(LinesOf(cleaned)) < Len(LinesOf(text))

(***************************************************************************)
(* Properties of the decoders and of bufferToWav                           *)
(***************************************************************************)
\* the k-th signed 16-bit little-endian value of a byte sequence
SignedLE16(bytes, k) ==
    LET u == bytes[2 * k - 1] + 256 * bytes[2 * k]
    IN u - 65536 * (u \div 32768)

\* readers of a RIFF/WAVE file; off is a byte offset from 0
ReadU16(bytes, off) == bytes[off + 1] + 256 * bytes[off + 2]
ReadU32(bytes, off) ==
    bytes[off + 1] + 256 * bytes[off + 2] + 65536 * bytes[off + 3]
        + 16777216 * bytes[off + 4]
ReadI16(bytes, off) ==
    LET u == ReadU16(bytes, off) IN u - 65536 * (u \div 32768)
TagAt(bytes, off, tag) == \A k \in 1..4 : bytes[off + k] = tag[k]

Abs(x) == IF x < 0 THEN -x ELSE x

Decoded == kpc \in {"decoded", "encoded"}

\* C11: a payload of 2N bytes, N >= 1, decodes to N samples, sample k being
\* the k-th signed little-endian 16-bit value over 32768, so within
\* [-1, 32767/32768]; for the inline decoder and for decodeAudioData.
C11_DecoderCorrect ==
    (Decoded /\ Len(payload) >= 2 /\ Len(payload) % 2 = 0) =>
        LET n == Len(payload) \div 2
        IN /\ ~decInline.threw
           /\ Len(decInline.samples) = n
           /\ ~decFn.threw
           /\ Len(decFn.channels) = 1
           /\ Len(decFn.channels[1]) = n
           /\ \A k \in 1..n :
                  /\ decInline.samples[k] = SignedLE16(payload, k)
                  /\ decFn.channels[1][k] = SignedLE16(payload, k)
                  /\ decInline.samples[k] >= -32768
                  /\ decInline.samples[k] <= 32767

\* two samples, a negative one and a positive one whose bytes differ
C11_Witness ==
    /\ kpc = "decoded"
    /\ Len(payload) = 4
    /\ decInline.samples[1] < 0
    /\ decInline.samples[2] > 0
    /\ payload[3] # payload[4]

\* C17: a payload of odd byte length is a decode failure: no buffer, whole or
\* truncated, comes out of either decoder.
C17_OddLengthIsFailure ==
    (Decoded /\ Len(payload) % 2 = 1) =>
        /\ decInline.threw
        /\ decInline.samples = <<>>
        /\ decFn.threw

\* the values of the header and the frames of a file
WavChannels(bytes) == ReadU16(bytes, 22)
WavRate(bytes) == ReadU32(bytes, 24)
WavFrames(bytes) == ReadU32(bytes, 40) \div ReadU16(bytes, 32)
\* the 16-bit value of channel c (from 1) of frame f (from 1)
WavValue(bytes, f, c) ==
    ReadI16(bytes, 44 + 2 * ((f - 1) * WavChannels(bytes) + (c - 1)))

\* C12: the file is 44 + S*C*2 bytes and its header holds exactly the
\* fields of a canonical PCM file of C channels at rate R.
C12_HeaderExact ==
    kpc = "encoded" =>
        LET S == wavIn.length
            C == wavIn.numberOfChannels
            R == wavIn.sampleRate
        IN /\ Len(wavOut) = 44 + S * C * 2
           /\ TagAt(wavOut, 0, <<82, 73, 70, 70>>)
           /\ ReadU32(wavOut, 4) = Len(wavOut) - 8
           /\ TagAt(wavOut, 8, <<87, 65, 86, 69>>)
           /\ TagAt(wavOut, 12, <<102, 109, 116, 32>>)
           /\ ReadU32(wavOut, 16) = 16
           /\ ReadU16(wavOut, 20) = 1
           /\ ReadU16(wavOut, 22) = C
           /\ ReadU32(wavOut, 24) = R
           /\ ReadU32(wavOut, 28) = R * C * 2
           /\ ReadU16(wavOut, 32) = C * 2
           /\ ReadU16(wavOut, 34) = 16
           /\ TagAt(wavOut, 36, <<100, 97, 116, 97>>)
           /\ ReadU32(wavOut, 40) = S * C * 2

\* a stereo buffer of two frames at 44100 Hz
C12_Witness ==
    /\ kpc = "encoded"
    /\ wavIn.numberOfChannels = 2
    /\ wavIn.length = 2
    /\ wavIn.sampleRate = 44100

\* every float of the buffer is within [-1, 1]
InUnitRange(buffer) ==
    \A c \in 1..buffer.numberOfChannels : \A f \in 1..buffer.length :
        Abs(buffer.channels[c][f]) <= 65536

\* C13: the sample is clamped to [-1, 1], multiplied by 32768 if negative and
\* by 32767 otherwise, cut to an integer and written; the value written is
\* within [-32768, 32767].
C13_AsymmetricScale ==
    kpc = "encoded" =>
        \A c \in 1..wavIn.numberOfChannels : \A f \in 1..wavIn.length :
            LET h == wavIn.channels[c][f]
                s == IF h > 65536 THEN 65536 ELSE IF h < -65536 THEN -65536 ELSE h
                w == WavValue(wavOut, f, c)
            IN /\ w >= -32768 /\ w <= 32767
               /\ s < 0 => w = -((-s) \div 2)
               /\ s >= 0 => w = (s * 32767) \div 65536

\* C14 as stated: every recovered sample w / 32768 is within 1/32768 of the
\* source sample h / 65536.
C14_RoundTripWithinOneStep ==
    (kpc = "encoded" /\ InUnitRange(wavIn)) =>
        \A c \in 1..wavIn.numberOfChannels : \A f \in 1..wavIn.length :
            Abs(wavIn.channels[c][f] - 2 * WavValue(wavOut, f, c)) <= 2

\* C14 (amended): parsing the file recovers the frame count, the sample rate
\* and the channel count, and every recovered sample is less than 2/32768
\* away from the source sample.
C14_RoundTripWithinTwoSteps ==
    (kpc = "encoded" /\ InUnitRange(wavIn)) =>
        /\ WavChannels(wavOut) = wavIn.numberOfChannels
        /\ WavRate(wavOut) = wavIn.sampleRate
        /\ WavFrames(wavOut) = wavIn.length
        /\ Len(wavOut) = 44 + ReadU32(wavOut, 40)
        /\ \A c \in 1..wavIn.numberOfChannels : \A f \in 1..wavIn.length :
               Abs(wavIn.channels[c][f] - 2 * WavValue(wavOut, f, c)) < 4

\* a stereo buffer within [-1, 1] one of whose samples comes back more than
\* 1/32768 away
C14_Witness ==
    /\ kpc = "encoded"
    /\ InUnitRange(wavIn)
    /\ wavIn.numberOfChannels = 2
    /\ \E c \in 1..2 : \E f \in 1..wavIn.length :
           Abs(wavIn.channels[c][f] - 2 * WavValue(wavOut, f, c)) = 3

C15_NoEmptySegment ==
    pc = "synth" =>
        /\ \A c \in 1..Len(chunks) :
               \E j \in 1..Len(chunks[c]) : chunks[c][j] \in DialogueLines
        /\ lines = <<EmptyLine>> => chunks = <<>>

\* C16: a line longer than Budget is alone in its chunk, wherever it stands
\* in the text, and each such line has its chunk.
C16_LongLineAlone ==
    pc = "synth" =>
        LET long(l) == l.len > Budget
        IN /\ \A c \in 1..Len(chunks) :
                  (\E j \in 1..Len(chunks[c]) : long(chunks[c][j]))
                      => Len(chunks[c]) = 1
           /\ Cardinality({c \in 1..Len(chunks) :
                               Len(chunks[c]) = 1 /\ long(chunks[c][1])})
                  = Cardinality({k \in 1..Len(lines) : long(lines[k])})

\* a long line between two short ones
C16_Witness ==
    /\ pc = "synth"
    /\ Len(lines) = 3
    /\ lines[1].len <= Budget
    /\ lines[2].len > Budget
    /\ lines[3].len <= Budget

\* C18: every failed segment is logged and adds no sample to the track.
C18_FailuresReported ==
    /\ \A k \in 1..Len(responses) :
           SegmentFailed(responses[k]) => (k - 1) \in Range(warned)
    /\ TotalLength(buffers) = SumDecoded(responses)

\* C19: in the second segmented synthesizePodcast a call that throws drops
\* its segment only: the calls of the later segments are issued, and an
\* error reaches the caller only if no segment decoded.
C19_DuplicateSkipsFailures ==
    Terminal =>
        /\ Len(calls) = Len(chunks)
        /\ error # "none" => \A k \in 1..Len(responses) : ~DecodedOk(responses[k])

\* C22: onProgress is invoked once per segment, with (i + 1, total) for
\* i = 0, 1, ... in this order and the same total each time, no later than
\* the segment's call is issued, whatever becomes of the segment.
C22_ProgressPerSegment ==
    /\ Len(progress) = Len(calls)
    /\ \A k \in 1..Len(progress) :
           /\ progress[k] = <<k, Len(chunks)>>
           /\ calls[k] = k - 1
    /\ Terminal => Len(progress) = Len(chunks)

\* a run of three segments, the second of which failed
C22_Witness ==
    /\ Terminal
    /\ Len(progress) = 3
    /\ SegmentFailed(responses[2])

\* the response adds no sample: no data, a throwing decode, or zero samples
AddsNothing(resp) ==
    \/ resp.kind # "bytes"
    \/ Len(resp.bytes) % 2 = 1
    \/ Len(resp.bytes) < 2

\* C23: a track that is returned has at least one sample; a run whose
\* segments all are missing, failing or of zero samples throws FatalError.
C23_TrackNotEmpty ==
    /\ pc = "returned" => Len(final) >= 1
    /\ (Terminal /\ \A k \in 1..Len(responses) : AddsNothing(responses[k]))
           => pc = "thrown" /\ error = FatalError

\* every segment answered, one of them with a payload of zero samples and
\* none with samples; and a returned track next to a zero-sample payload
C23_Witness ==
    \/ /\ pc = "thrown"
       /\ \E k \in 1..Len(responses) :
              responses[k] = [kind |-> "bytes", bytes |-> <<>>]
    \/ /\ pc = "returned"
       /\ \E k \in 1..Len(responses) :
              responses[k] = [kind |-> "bytes", bytes |-> <<>>]

\* C24: when every call settles the function settles, returning or throwing,
\* and every call it issues is for a segment of the list.
C24_Settles ==
    /\ <>Terminal
    /\ [](\A k \in 1..Len(calls) : calls[k] < Len(chunks))

\* settled after a pass over three segments
C24_Witness ==
    /\ Terminal
    /\ Len(chunks) = 3
    /\ Len(calls) = 3
    /\ inFlight = {}

(***************************************************************************)
(* Properties of the workflow                                              *)
(***************************************************************************)
\* the runs that await a service call
InProgress == {r \in 1..Len(runs) : runs[r].status = "awaiting"}

IsPrefix(a, b) == Len(a) <= Len(b) /\ \A n \in 1..Len(a) : a[n] = b[n]

\* the steps of a complete run
StepOrder ==
    <<"RESEARCH", "INSIGHTS", "OUTLINE", "DRAFTING", "SYNTHESIS", "COMPLETED">>

\* how many service calls have resolved when the n-th step of StepOrder is
\* entered: generateOutline and generateEpisodeTitle both belong to OUTLINE
CallsBefore == <<0, 1, 2, 4, 5, 6>>

\* the step during which the call is awaited
StageOf(call) ==
    CASE call = "collectMaterials" -> "RESEARCH"
      [] call = "generateHighlightsAndHooks" -> "INSIGHTS"
      [] call \in {"generateOutline", "generateEpisodeTitle"} -> "OUTLINE"
      [] call = "generateScript" -> "DRAFTING"
      [] call = "synthesizePodcast" -> "SYNTHESIS"

\* the fields stored by the stages that completed before the call is awaited
GatheredBefore(call) ==
    CASE call = "collectMaterials" -> {}
      [] call = "generateHighlightsAndHooks" -> {"materials", "groundingLinks"}
      [] call \in {"generateOutline", "generateEpisodeTitle"} ->
             {"materials", "groundingLinks", "hooks", "highlights"}
      [] call = "generateScript" ->
             {"materials", "groundingLinks", "hooks", "highlights", "outline",
              "title"}
      [] call = "synthesizePodcast" ->
             {"materials", "groundingLinks", "hooks", "highlights", "outline",
              "title", "finalScript"}

\* C21: when a stage fails, what the completed stages of the run gathered is
\* still in content, with the run's keyword, while the retry is offered.
C21_FailureKeepsContent ==
    (runs # <<>> /\ runs[Len(runs)].status = "failed") =>
        LET r == Len(runs)
        IN /\ errorOccurred
           /\ currentStep \notin {"IDLE", "COMPLETED"}
           /\ DOMAIN content = {"keyword"} \cup GatheredBefore(runs[r].at)
           /\ content["keyword"] = runs[r].k
           /\ \A f \in GatheredBefore(runs[r].at) : content[f] = ToString(r)

\* the synthesis failed: the script and all before it are held
C21_Witness ==
    /\ runs # <<>>
    /\ runs[Len(runs)].status = "failed"
    /\ runs[Len(runs)].at = "synthesizePodcast"
    /\ "finalScript" \in DOMAIN content

\* C25: a run hands to setCurrentStep the steps of StepOrder, in this order
\* and each once the calls of the stage before have resolved; currentStep is
\* the last of them, moves only to the next step of StepOrder while the run
\* lasts, and is never TRIGGER or REVIEW.
C25_StepsInOrder ==
    /\ [](/\ currentStep \notin {"TRIGGER", "REVIEW"}
          /\ \A r \in 1..Len(runs) :
                 /\ IsPrefix(runs[r].steps, StepOrder)
                 /\ IsPrefix(runs[r].resolved, ServiceCalls)
                 /\ \A n \in 1..Len(StepOrder) :
                        n <= Len(runs[r].steps)
                            <=> CallsBefore[n] <= Len(runs[r].resolved)
          /\ runs # <<>> =>
                 currentStep = runs[Len(runs)].steps[Len(runs[Len(runs)].steps)])
    /\ [][(Len(runs') = Len(runs) /\ currentStep' # currentStep) =>
              \E n \in 1..(Len(StepOrder) - 1) :
                  currentStep = StepOrder[n] /\ currentStep' = StepOrder[n + 1]]_vars

\* a run went through all its stages
C25_Witness ==
    /\ runs # <<>>
    /\ runs[Len(runs)].status = "completed"
    /\ runs[Len(runs)].steps = StepOrder
    /\ currentStep = "COMPLETED"

\* C26: a run whose calls settle ends, either completed (currentStep
\* COMPLETED, audioBuffer in content, errorOccurred false) or failed
\* (errorOccurred true, an error entry last in the log, currentStep the stage
\* of the failed call); COMPLETED and errorOccurred never hold together.
C26_RunOutcome ==
    /\ [](runs # <<>> =>
              LET run == runs[Len(runs)]
              IN /\ run.status = "completed" =>
                        /\ currentStep = "COMPLETED"
                        /\ "audioBuffer" \in DOMAIN content
                        /\ ~errorOccurred
                 /\ run.status = "failed" =>
                        /\ errorOccurred
                        /\ currentStep = StageOf(run.at)
                        /\ executionLogs[Len(executionLogs)].type = "error"
                 /\ run.status = "awaiting" => ~errorOccurred)
    /\ [](~(currentStep = "COMPLETED" /\ errorOccurred))
    /\ \A r \in 1..MaxRuns :
           (Len(runs) >= r) ~>
               (Len(runs) >= r /\ runs[r].status \in {"completed", "failed"})

\* the title call failed: the run ends in the OUTLINE stage
C26_Witness ==
    /\ runs # <<>>
    /\ runs[Len(runs)].status = "failed"
    /\ runs[Len(runs)].at = "generateEpisodeTitle"
    /\ currentStep = "OUTLINE"
    /\ errorOccurred

C28_OneRunAtATime ==
    /\ Cardinality(InProgress) <= 1
    /\ InProgress # {} => (currentStep # "IDLE" /\ ~errorOccurred)

\* the retried run is under way, alone
C28_Witness ==
    /\ Len(runs) = 2
    /\ runs[1].status = "failed"
    /\ runs[2].status = "awaiting"
    /\ runs[2].at = "generateScript"

\* C29: getStepProgress is 0 exactly for IDLE, 100 only for COMPLETED, at
\* least 5 and below 100 for every other step a run reaches, and does not
\* decrease while a run advances.
C29_ProgressScale ==
    /\ [](LET value == getStepProgress(currentStep)
              length == Len(STEPS_CONFIG)
          IN /\ value = 0 <=> currentStep = "IDLE"
             /\ value = 100 * length => currentStep = "COMPLETED"
             /\ currentStep \notin {"IDLE", "COMPLETED"} =>
                    (value >= 5 * length /\ value < 100 * length))
    /\ [][Len(runs') = Len(runs) =>
              getStepProgress(currentStep') >= getStepProgress(currentStep)]_vars

====
